---- MODULE Spec2Model ----
(***************************************************************************)
(* VirtuWear try-on backend (src/app.py): outfit resolution, the request   *)
(* sent to the image model, the extraction of the returned image, the      *)
(* /api/tryon handler and its files on disk.                               *)
(*                                                                         *)
(* File names and identifiers are sequences of one-character strings, so   *)
(* that suffix(), lower(), prefixing and glob matching are computed on the *)
(* characters as pathlib computes them.  Name comparison is case-sensitive *)
(* (POSIX flavour); catalog entries are regular files.                     *)
(***************************************************************************)
EXTENDS Naturals, Integers, Sequences, FiniteSets, TLC

VARIABLES
    catalog,     \* names of the files in IMG_DIR
    extOrder,    \* iteration order of the set ALLOWED_EXTS in this process
    extOrder2,   \* iteration order of ALLOWED_EXTS in a second run of the program
    resolved,    \* last call of find_outfit_path in this process: [name, result]
    resolved2,   \* last call of find_outfit_path in the second run
    extracted,   \* last run of the response extractor: [response, result]
    files,       \* content of the upload files and of the result file, in chunks
    lastWriter,  \* per file, the request that wrote to it last (0: none yet)
    req          \* per request thread, the position and locals of api_tryon

pure == <<catalog, extOrder, extOrder2, resolved, resolved2, extracted>>
vars == <<catalog, extOrder, extOrder2, resolved, resolved2, extracted,
          files, lastWriter, req>>

----------------------------------------------------------------------------
(* Bounds *)

\* most files in the catalog directory
MaxFiles == 2

\* most candidates in an upstream response, most parts in a content
MaxCands == 2
MaxParts == 2

\* number of write calls that put one image file on disk
ChunksPerFile == 2

----------------------------------------------------------------------------
(* Characters, extensions, names *)

JPG  == <<".", "j", "p", "g">>
JPEG == <<".", "j", "p", "e", "g">>
PNG  == <<".", "p", "n", "g">>
WEBP == <<".", "w", "e", "b", "p">>

\* ALLOWED_EXTS = {".jpg", ".jpeg", ".png", ".webp"}
ALLOWED_EXTS == {JPG, JPEG, PNG, WEBP}

\* an upper-case spelling and an extension that is not allowed
PNG_UPPER == <<".", "P", "N", "G">>
TXT == <<".", "t", "x", "t">>

\* str.lower() on one character
LowerChar(c) ==
    CASE c = "P" -> "p"
      [] c = "N" -> "n"
      [] c = "G" -> "g"
      [] c = "J" -> "j"
      [] OTHER -> c

\* str.lower()
lower(s) == [i \in DOMAIN s |-> LowerChar(s[i])]

\* str.rfind(c), 1-based; 0 when c does not occur
rfind(s, c) ==
    LET I == {i \in DOMAIN s : s[i] = c}
    IN  IF I = {} THEN 0 ELSE CHOOSE i \in I : \A j \in I : j <= i

\* pathlib PurePath.suffix: from the last dot, unless the dot leads or ends the name
suffix(name) ==
    LET i == rfind(name, ".")
    IN  IF 1 < i /\ i < Len(name) THEN SubSeq(name, i, Len(name)) ELSE <<>>

\* allowed_file(filename)
allowed_file(filename) == lower(suffix(filename)) \in ALLOWED_EXTS

\* fnmatch of a whole name against a pattern with ? and *
RECURSIVE fnmatch(_, _)
fnmatch(s, pat) ==
    IF pat = <<>> THEN s = <<>>
    ELSE IF Head(pat) = "*"
         THEN fnmatch(s, Tail(pat)) \/ (s # <<>> /\ fnmatch(Tail(s), pat))
         ELSE /\ s # <<>>
              /\ (Head(pat) = "?" \/ Head(pat) = Head(s))
              /\ fnmatch(Tail(s), Tail(pat))

\* IMG_DIR.glob(pattern): the entries of the directory matching the pattern
glob(pattern) == {p \in catalog : fnmatch(p, pattern)}

\* name is a literal prefix of p
StartsWith(p, name) ==
    Len(name) <= Len(p) /\ SubSeq(p, 1, Len(name)) = name

\* str(FileNotFoundError(f"Outfit not found: {name}"))
NotFoundMessage(name) == <<"Outfit not found: ">> \o name

\* the allowed extensions whose file IMG_DIR / (name + ext) exists, as positions
\* of the iteration order
ExistingExtPositions(order, name) ==
    {i \in DOMAIN order : (name \o order[i]) \in catalog}

\* find_outfit_path with the prefix match tried before the exact and extension matches
find_outfit_path_glob_first(order, name) ==
    LET G == {p \in glob(name \o <<"*">>) : allowed_file(p)}
    IN  IF G # {}
        THEN {[ok |-> TRUE, path |-> p] : p \in G}
        ELSE {[ok |-> FALSE, error |-> NotFoundMessage(name)]}

\* find_outfit_path(name) under the iteration order `order` of ALLOWED_EXTS:
\* the set of outcomes (the directory-listing order of glob is not determined)
find_outfit_path_in(order, name) ==
    IF name \in catalog /\ allowed_file(name)
    THEN {[ok |-> TRUE, path |-> name]}
    ELSE LET E == ExistingExtPositions(order, name)
         IN  IF E # {}
             THEN {[ok |-> TRUE,
                    path |-> name \o order[CHOOSE i \in E : \A j \in E : i <= j]]}
             ELSE LET G == {p \in glob(name \o <<"*">>) : allowed_file(p)}
                  IN  IF G # {}
                      THEN {[ok |-> TRUE, path |-> p] : p \in G}
                      ELSE {[ok |-> FALSE, error |-> NotFoundMessage(name)]}

\* find_outfit_path(name) in this process
find_outfit_path(name) == find_outfit_path_in(extOrder, name)

----------------------------------------------------------------------------
(* Inputs of the resolver *)

Stems == {<<"a">>, <<"a", "b">>}

FileExts == ALLOWED_EXTS \cup {PNG_UPPER, TXT}

\* names a catalog file can have
CatalogNames ==
    {s \o e : s \in Stems, e \in FileExts}
        \cup {<<"a">>, <<"a">> \o PNG \o JPG}

\* identifiers a caller can pass
Identifiers ==
    Stems \cup CatalogNames \cup {<<"x">>, <<"?">>, <<"a", "?">>, <<"a">> \o TXT \o PNG}

Catalogs(names) == {c \in SUBSET names : Cardinality(c) <= MaxFiles}

\* the orders in which a set of four strings can be iterated
ExtOrders ==
    {f \in [1..Cardinality(ALLOWED_EXTS) -> ALLOWED_EXTS] :
        \A i, j \in DOMAIN f : i # j => f[i] # f[j]}

NoCall == [name |-> <<>>, result |-> [ok |-> FALSE, error |-> <<>>]]
----------------------------------------------------------------------------
(* The upstream response and its extractor *)

\* Optional values: None, or a one-element tuple holding the value
None == <<>>
Some(x) == <<x>>

SeqsUpTo(S, n) == UNION {[1..k -> S] : k \in 0..n}

\* bytes an inline part can carry: b"" and two images
EmptyBytes == ""
PayloadBytes == {EmptyBytes, "img1", "img2"}

\* Blob(data=...), Part(inline_data=...), Content(parts=...), Candidate(content=...)
Blobs(bytes) == {[data |-> None]} \cup {[data |-> Some(b)] : b \in bytes}
Parts(bytes) ==
    {[inline_data |-> None]} \cup {[inline_data |-> Some(b)] : b \in Blobs(bytes)}
Contents(bytes, maxP) ==
    {[parts |-> None]} \cup {[parts |-> Some(ps)] : ps \in SeqsUpTo(Parts(bytes), maxP)}
Candidates(bytes, maxP) ==
    {[content |-> None]} \cup {[content |-> Some(c)] : c \in Contents(bytes, maxP)}

\* what client.models.generate_content can return: None, or a response whose
\* candidates are None or a list
Responses(bytes, maxC, maxP) ==
    {None}
        \cup {Some([candidates |-> None])}
        \cup {Some([candidates |-> Some(cs)]) :
                 cs \in SeqsUpTo(Candidates(bytes, maxP), maxC)}

\* `inline and getattr(inline, "data", None)`: the part carries non-empty data
HasData(part) ==
    /\ part.inline_data # None
    /\ part.inline_data[1].data # None
    /\ part.inline_data[1].data[1] # EmptyBytes

\* the loop over response.candidates (lines 177-187): the first non-empty inline
\* data, "none" when the loop ends without one, TypeError when a content's parts
\* is None (getattr finds the attribute, and None is not iterable)
RECURSIVE ScanCandidates(_)
ScanCandidates(cands) ==
    IF cands = <<>> THEN [kind |-> "none"]
    ELSE LET content == Head(cands).content
         IN  IF content = None THEN ScanCandidates(Tail(cands))
             ELSE IF content[1].parts = None THEN [kind |-> "TypeError"]
             ELSE LET parts == content[1].parts[1]
                      hits == {i \in DOMAIN parts : HasData(parts[i])}
                  IN  IF hits # {}
                      THEN [kind |-> "image",
                            data |-> parts[CHOOSE i \in hits :
                                             \A j \in hits : i <= j].inline_data[1].data[1]]
                      ELSE ScanCandidates(Tail(cands))

\* lines 174-187: image_bytes after the traversal
ExtractImage(response) ==
    IF response # None /\ response[1].candidates # None
                       /\ response[1].candidates[1] # <<>>
    THEN ScanCandidates(response[1].candidates[1])
    ELSE [kind |-> "none"]

NoExtraction ==
    [response |-> None, result |-> [kind |-> "unset"], outcome |-> [kind |-> "unset"]]

----------------------------------------------------------------------------
(* Files on disk *)

\* request threads of the server (app.run(..., threaded=True))
Requests == {1, 2}

\* UPLOADS_DIR / f"user_photo{ext}"
UploadPath(ext) == <<"uploads/user_photo">> \o ext

\* OUTPUT_DIR / "tryon_result_gemini.jpg"
OUT_PATH == <<"output/tryon_result_gemini.jpg">>

Paths == {UploadPath(e) : e \in ALLOWED_EXTS} \cup {OUT_PATH}

\* a file is a sequence of chunks; a chunk is the k-th piece of the bytes `src`
Chunk(src, k) == [src |-> src, k |-> k]

\* what a write past the end of a truncated file leaves before it
Hole == [src |-> "zero", k |-> 0]

\* the file holding all of `src`
Whole(src) == [k \in 1..ChunksPerFile |-> Chunk(src, k)]

\* open(path, "wb"): the file is truncated; the writer's offset starts at 0
Truncate(f) == <<>>

\* a write() on a file opened for appending
WriteAppend(f, k, c) == Append(f, c)

\* one write() of chunk c at the writer's own offset k - 1
WriteAt(f, k, c) ==
    [i \in 1..(IF Len(f) > k THEN Len(f) ELSE k) |->
        IF i = k THEN c ELSE IF i <= Len(f) THEN f[i] ELSE Hole]

\* bytes that are an image file, and bytes that are not
ImageSources == {"p1", "p2", "img1", "img2"}
JUNK == "junk"

\* Image.open(...).convert("RGB") on a file content: a whole image decodes; a
\* full-length mix of pieces of images decodes to a mixed picture or fails; anything
\* shorter, holed or not an image fails
DecodeOutcomes(content) ==
    IF /\ Len(content) = ChunksPerFile
       /\ \A i \in DOMAIN content :
            content[i].k = i /\ content[i].src \in ImageSources
    THEN IF \A i \in DOMAIN content : content[i].src = content[1].src
         THEN {[ok |-> TRUE, image |-> content]}
         ELSE {[ok |-> TRUE, image |-> content], [ok |-> FALSE]}
    ELSE {[ok |-> FALSE]}

\* image_to_png_bytes: the PNG encoding of a decoded picture
PngOf(image) == [format |-> "PNG", mode |-> "RGB", image |-> image]

\* image_to_png_bytes(outfit_path) for a readable garment file
GarmentPng(path) == [format |-> "PNG", mode |-> "RGB", garment |-> path]

\* str(e) of PIL's failure to read an image
DecodeMessage(where) == <<"cannot identify image file ">> \o where

----------------------------------------------------------------------------
(* run_gemini_tryon: the request sent upstream and the errors it raises *)

\* GEMINI_MODEL, the default of line 51
GEMINI_MODEL == "gemini-3-pro-image-preview"

BASE_PROMPT == "You are a professional virtual try-on system. [...] no collages."

\* lines 136-145
PromptText(extra_prompt) ==
    IF extra_prompt # ""
    THEN <<BASE_PROMPT, "\nExtra styling instructions: ", extra_prompt>>
    ELSE <<BASE_PROMPT>>

InlinePart(data) == [inline_data |-> [mime_type |-> "image/png", data |-> data]]

\* contents with the garment before the user photo
BuildContentsGarmentFirst(user_bytes, outfit_bytes, extra_prompt) ==
    <<[parts |-> <<[text |-> PromptText(extra_prompt)],
                   InlinePart(outfit_bytes),
                   InlinePart(user_bytes)>>]>>

\* lines 147-165: contents
BuildContents(user_bytes, outfit_bytes, extra_prompt) ==
    <<[parts |-> <<[text |-> PromptText(extra_prompt)],
                   InlinePart(user_bytes),
                   InlinePart(outfit_bytes)>>]>>

\* lines 189-194: str(RuntimeError(...))
NoImageMessage ==
    <<"Gemini did not return an image. ", "Model used: ", GEMINI_MODEL,
      ". Check the model ID in AI Studio ", "and your project ", "quota", ".">>

TypeErrorMessage == <<"'NoneType' object is not iterable">>

\* errors client.models.generate_content raises
QuotaError == <<"429 ", "RESOURCE_EXHAUSTED", ". You exceeded your current ", "quota", ".">>
QuotaErrorCapital == <<"429 ", "Quota", " exceeded for this model.">>
UnavailableError == <<"503 UNAVAILABLE. The model is overloaded.">>

Raise(type, msg) == [kind |-> "raise", type |-> type, msg |-> msg]
Return(response) == [kind |-> "return", response |-> response]

\* run_gemini_tryon after the images are loaded (lines 147-197): what the upstream
\* outcome `out` makes of the call: an exception, or the image bytes to save
AfterCall(out) ==
    IF out.kind = "raise" THEN [kind |-> "raise", type |-> out.type, msg |-> out.msg]
    ELSE LET x == ExtractImage(out.response)
         IN  IF x.kind = "TypeError"
             THEN [kind |-> "raise", type |-> "TypeError", msg |-> TypeErrorMessage]
             ELSE IF x.kind = "none"
             THEN [kind |-> "raise", type |-> "RuntimeError", msg |-> NoImageMessage]
             ELSE IF x.data \in ImageSources
             THEN [kind |-> "image", data |-> x.data]
             ELSE [kind |-> "raise", type |-> "UnidentifiedImageError",
                   msg |-> DecodeMessage(<<"<_io.BytesIO object>">>)]

----------------------------------------------------------------------------
(* api_tryon *)

Contains(msg, w) == \E i \in DOMAIN msg : msg[i] = w

\* str.lower() on the pieces of a message that spell "quota"
LowerToken(w) == IF w \in {"Quota", "QUOTA"} THEN "quota" ELSE w

\* line 276: "RESOURCE_EXHAUSTED" in msg or "quota" in msg.lower()
IsQuotaText(msg) ==
    \/ Contains(msg, "RESOURCE_EXHAUSTED")
    \/ Contains([i \in DOMAIN msg |-> LowerToken(msg[i])], "quota")

\* lines 277-278
QUOTA_MESSAGE ==
    <<"Gemini quota exhausted for this model. ",
      "Use a cheaper model or add billing in Google AI Studio.">>

Response(status, error, data) == [status |-> status, error |-> error, data |-> data]

\* lines 273-279: the response for an exception with text msg
ErrorResponse(msg) ==
    Response(500, <<"Try-on error: ">> \o (IF IsQuotaText(msg) THEN QUOTA_MESSAGE ELSE msg),
             <<>>)

MissingPhoto == Response(400, <<"Missing 'photo' file.">>, <<>>)
MissingOutfit == Response(400, <<"Missing 'outfit' parameter.">>, <<>>)

\* Python truthiness of an optional string
Truthy(x) == x # None /\ x[1] # <<>>

\* lines 249-253: a or b or c
OutfitName(places) ==
    IF Truthy(places[1]) THEN places[1]
    ELSE IF Truthy(places[2]) THEN places[2]
    ELSE places[3]

\* lines 259-261
UploadExt(filename) ==
    LET ext == IF lower(suffix(filename)) # <<>> THEN lower(suffix(filename)) ELSE JPG
    IN  IF ext \in ALLOWED_EXTS THEN ext ELSE JPG

EmptyFiles == [p \in Paths |-> <<>>]

\* a request thread that is not in api_tryon
IdleReq ==
    [pc |-> "idle", has_photo |-> FALSE, outfit_name |-> None,
     prompt |-> "", photo |-> "", user_path |-> <<>>, outfit_path |-> <<>>,
     user_bytes |-> None, image_bytes |-> "", pos |-> 0, sent |-> None,
     exc |-> None, resp |-> None, before |-> EmptyFiles]

Done(q, resp) == [q EXCEPT !.pc = "done", !.resp = Some(resp), !.pos = 0]

\* an exception reaching line 273
Fail(q, type, msg) ==
    [Done(q, ErrorResponse(msg)) EXCEPT !.exc = Some([type |-> type, msg |-> msg])]

\* api_tryon with photo.save moved before the check of the outfit parameter
ReceiveSavingFirst(r, uploads, placesSet, prompts) ==
    /\ req[r].pc = "idle"
    /\ \E up \in uploads \cup {None}, places \in placesSet, prompt \in prompts :
          /\ files' = IF up = None THEN files
                      ELSE [files EXCEPT ![UploadPath(UploadExt(up[1].filename))] =
                              Whole(up[1].content)]
          /\ req' = [req EXCEPT ![r] =
                IF up = None THEN Done([IdleReq EXCEPT !.before = files], MissingPhoto)
                ELSE IF ~Truthy(OutfitName(places))
                THEN Done([IdleReq EXCEPT !.before = files,
                                          !.has_photo = TRUE,
                                          !.outfit_name = OutfitName(places)],
                          MissingOutfit)
                ELSE [IdleReq EXCEPT
                        !.before = files,
                        !.pc = "resolve",
                        !.has_photo = TRUE,
                        !.outfit_name = OutfitName(places),
                        !.prompt = IF prompt = None THEN "" ELSE prompt[1],
                        !.photo = up[1].content,
                        !.user_path = UploadPath(UploadExt(up[1].filename))]]
    /\ UNCHANGED <<pure, lastWriter>>

\* lines 243-262: the request is read; nothing is written yet
Receive(r, uploads, placesSet, prompts) ==
    /\ req[r].pc = "idle"
    /\ \E up \in uploads \cup {None}, places \in placesSet, prompt \in prompts :
          req' = [req EXCEPT ![r] =
            IF up = None THEN Done([IdleReq EXCEPT !.before = files], MissingPhoto)
            ELSE IF ~Truthy(OutfitName(places))
            THEN Done([IdleReq EXCEPT !.before = files,
                                      !.has_photo = TRUE,
                                      !.outfit_name = OutfitName(places)],
                      MissingOutfit)
            ELSE [IdleReq EXCEPT
                    !.before = files,
                    !.pc = "save_open",
                    !.has_photo = TRUE,
                    !.outfit_name = OutfitName(places),
                    !.prompt = IF prompt = None THEN "" ELSE prompt[1],
                    !.photo = up[1].content,
                    !.user_path = UploadPath(UploadExt(up[1].filename))]]
    /\ UNCHANGED <<pure, files, lastWriter>>

\* line 263, photo.save: the upload file is opened for writing
SaveOpen(r) ==
    /\ req[r].pc = "save_open"
    /\ files' = [files EXCEPT ![req[r].user_path] = Truncate(@)]
    /\ lastWriter' = [lastWriter EXCEPT ![req[r].user_path] = r]
    /\ req' = [req EXCEPT ![r].pc = "save_write", ![r].pos = 0]
    /\ UNCHANGED pure

\* line 263, photo.save: one chunk of the upload is written
SaveWrite(r) ==
    /\ req[r].pc = "save_write"
    /\ LET k == req[r].pos + 1
       IN  /\ files' = [files EXCEPT ![req[r].user_path] =
                           WriteAt(@, k, Chunk(req[r].photo, k))]
           /\ req' = [req EXCEPT ![r].pos = IF k = ChunksPerFile THEN 0 ELSE k,
                                 ![r].pc = IF k = ChunksPerFile THEN "resolve"
                                           ELSE "save_write"]
    /\ lastWriter' = [lastWriter EXCEPT ![req[r].user_path] = r]
    /\ UNCHANGED pure

\* lines 265-268
ResolveOutfit(r) ==
    /\ req[r].pc = "resolve"
    /\ \E o \in find_outfit_path(req[r].outfit_name[1]) :
          req' = [req EXCEPT ![r] =
            IF o.ok THEN [@ EXCEPT !.pc = "load_user", !.outfit_path = o.path]
            ELSE Done(@, Response(404, o.error, <<>>))]
    /\ UNCHANGED <<pure, files, lastWriter>>

\* line 133: the upload file is read back and decoded
LoadUser(r) ==
    /\ req[r].pc = "load_user"
    /\ \E o \in DecodeOutcomes(files[req[r].user_path]) :
          req' = [req EXCEPT ![r] =
            IF o.ok THEN [@ EXCEPT !.pc = "generate", !.user_bytes = Some(PngOf(o.image))]
            ELSE Fail(@, "UnidentifiedImageError", DecodeMessage(req[r].user_path))]
    /\ UNCHANGED <<pure, files, lastWriter>>

\* lines 134-197: the garment is loaded, the request is built and sent, the
\* response is searched for an image and the image is decoded
Generate(r, garmentReadable, outcomes) ==
    /\ req[r].pc = "generate"
    /\ \E readable \in garmentReadable, out \in outcomes :
          req' = [req EXCEPT ![r] =
            IF ~readable
            THEN Fail(@, "UnidentifiedImageError", DecodeMessage(req[r].outfit_path))
            ELSE LET q == [@ EXCEPT !.sent =
                             Some(BuildContents(req[r].user_bytes[1],
                                                GarmentPng(req[r].outfit_path),
                                                req[r].prompt))]
                     a == AfterCall(out)
                 IN  IF a.kind = "raise" THEN Fail(q, a.type, a.msg)
                     ELSE [q EXCEPT !.pc = "out_open", !.image_bytes = a.data]]
    /\ UNCHANGED <<pure, files, lastWriter>>

\* line 198, img.save: the result file is opened for writing
OutOpen(r) ==
    /\ req[r].pc = "out_open"
    /\ files' = [files EXCEPT ![OUT_PATH] = Truncate(@)]
    /\ lastWriter' = [lastWriter EXCEPT ![OUT_PATH] = r]
    /\ req' = [req EXCEPT ![r].pc = "out_write", ![r].pos = 0]
    /\ UNCHANGED pure

\* line 198, img.save: one chunk of the JPEG is written
OutWrite(r) ==
    /\ req[r].pc = "out_write"
    /\ LET k == req[r].pos + 1
       IN  /\ files' = [files EXCEPT ![OUT_PATH] =
                           WriteAt(@, k, Chunk(req[r].image_bytes, k))]
           /\ req' = [req EXCEPT ![r].pos = IF k = ChunksPerFile THEN 0 ELSE k,
                                 ![r].pc = IF k = ChunksPerFile THEN "send"
                                           ELSE "out_write"]
    /\ lastWriter' = [lastWriter EXCEPT ![OUT_PATH] = r]
    /\ UNCHANGED pure

\* line 271, send_file: the result file is read and streamed
Send(r) ==
    /\ req[r].pc = "send"
    /\ req' = [req EXCEPT ![r] = Done(@, Response(200, <<>>, files[OUT_PATH]))]
    /\ UNCHANGED <<pure, files, lastWriter>>

\* the response is handed to the server and the thread is free again
Finish(r) ==
    /\ req[r].pc = "done"
    /\ req' = [req EXCEPT ![r] = IdleReq]
    /\ UNCHANGED <<pure, files, lastWriter>>

\* no request is being handled and no file has been written
HandlerAtRest ==
    /\ files = EmptyFiles
    /\ lastWriter = [p \in Paths |-> 0]
    /\ req = [r \in Requests |-> IdleReq]

----------------------------------------------------------------------------
(* Sequential requests: SpecSeq *)

A_ID == <<"a">>
Q_ID == <<"?">>

SeqCatalogNames == {<<"a">> \o PNG, <<"a", "b">> \o PNG}

\* two of the iteration orders of ALLOWED_EXTS
SeqExtOrders == {<<JPG, JPEG, PNG, WEBP>>, <<WEBP, PNG, JPEG, JPG>>}

Upload(filename, content) == Some([filename |-> filename, content |-> content])

SeqUploads ==
    {Upload(f, c) : f \in {<<"u">> \o PNG_UPPER, <<"u">> \o TXT}, c \in {"p1", JUNK}}

PlaceValues == {None, Some(<<>>), Some(A_ID), Some(Q_ID)}
SeqPlaces == [1..3 -> PlaceValues]

SeqPrompts == {None, Some(""), Some("casual")}

OneCandidate(parts) == [content |-> Some([parts |-> parts])]
DataPart(b) == [inline_data |-> Some([data |-> Some(b)])]
TextPart == [inline_data |-> None]
ResponseOf(cands) == Some([candidates |-> Some(cands)])

\* upstream outcomes a request can meet
SeqOutcomes ==
    {Return(None), Return(Some([candidates |-> None])), Return(ResponseOf(<<>>)),
     Return(ResponseOf(<<OneCandidate(None)>>)),
     Return(ResponseOf(<<OneCandidate(Some(<<TextPart>>))>>)),
     Return(ResponseOf(<<[content |-> None],
                         OneCandidate(Some(<<TextPart, DataPart("img2")>>))>>)),
     Return(ResponseOf(<<OneCandidate(Some(<<DataPart("img1")>>))>>)),
     Return(ResponseOf(<<OneCandidate(Some(<<DataPart(JUNK)>>))>>)),
     Raise("ClientError", QuotaError),
     Raise("ClientError", QuotaErrorCapital),
     Raise("ServerError", UnavailableError)}

InitSeq ==
    /\ catalog \in Catalogs(SeqCatalogNames)
    /\ extOrder \in SeqExtOrders
    /\ extOrder2 = extOrder
    /\ resolved = NoCall
    /\ resolved2 = NoCall
    /\ extracted = NoExtraction
    /\ HandlerAtRest

NextSeq ==
    \/ Receive(1, SeqUploads, SeqPlaces, SeqPrompts)
    \/ SaveOpen(1)
    \/ SaveWrite(1)
    \/ ResolveOutfit(1)
    \/ LoadUser(1)
    \/ Generate(1, BOOLEAN, SeqOutcomes)
    \/ OutOpen(1)
    \/ OutWrite(1)
    \/ Send(1)
    \/ Finish(1)

SpecSeq == InitSeq /\ [][NextSeq]_vars

----------------------------------------------------------------------------
(* Two requests in parallel threads: SpecConc *)

\* the photo request r uploads and the image upstream generates for request r
PhotoOf(r) == IF r = 1 THEN "p1" ELSE "p2"
ImageOf(r) == IF r = 1 THEN "img1" ELSE "img2"

ConcUploads(r) ==
    {Upload(f, PhotoOf(r)) : f \in {<<"u">> \o JPG, <<"u">> \o PNG}}

ConcPlaces == {<<Some(A_ID), None, None>>}

ConcOutcomes(r) ==
    {Return(ResponseOf(<<OneCandidate(Some(<<DataPart(ImageOf(r))>>))>>)),
     Return(ResponseOf(<<>>))}

InitConc ==
    /\ catalog = {<<"a">> \o PNG}
    /\ extOrder = <<JPG, JPEG, PNG, WEBP>>
    /\ extOrder2 = extOrder
    /\ resolved = NoCall
    /\ resolved2 = NoCall
    /\ extracted = NoExtraction
    /\ HandlerAtRest

NextConc ==
    \E r \in Requests :
        \/ Receive(r, ConcUploads(r), ConcPlaces, {None})
        \/ SaveOpen(r)
        \/ SaveWrite(r)
        \/ ResolveOutfit(r)
        \/ LoadUser(r)
        \/ Generate(r, {TRUE}, ConcOutcomes(r))
        \/ OutOpen(r)
        \/ OutWrite(r)
        \/ Send(r)

SpecConc == InitConc /\ [][NextConc]_vars

----------------------------------------------------------------------------
(* The resolver as a pure function of the catalog: SpecResolve *)

InitResolve ==
    /\ catalog \in Catalogs(CatalogNames)
    /\ extOrder \in ExtOrders
    /\ extOrder2 = extOrder
    /\ resolved = NoCall
    /\ resolved2 = NoCall
    /\ extracted = NoExtraction
    /\ HandlerAtRest

ResolveIn(ids) ==
    /\ resolved = NoCall
    /\ \E name \in ids :
        \E r \in find_outfit_path(name) :
            /\ resolved' = [name |-> name, result |-> r]
            /\ UNCHANGED <<catalog, extOrder, extOrder2, resolved2, extracted,
                           files, lastWriter, req>>

Resolve == ResolveIn(Identifiers)

NextResolve == Resolve

SpecResolve == InitResolve /\ [][NextResolve]_vars

----------------------------------------------------------------------------
(* Two runs of the program on the same catalog: SpecRuns *)

RunNames == {<<"a">> \o e : e \in ALLOWED_EXTS}
RunIdentifiers == {<<"a">>, <<"a">> \o PNG, <<"x">>}

InitRuns ==
    /\ catalog \in Catalogs(RunNames)
    /\ extOrder \in ExtOrders
    /\ extOrder2 \in ExtOrders
    /\ resolved = NoCall
    /\ resolved2 = NoCall
    /\ extracted = NoExtraction
    /\ HandlerAtRest

ResolveRun1 == ResolveIn(RunIdentifiers)

ResolveRun2 ==
    /\ resolved2 = NoCall
    /\ \E name \in RunIdentifiers :
        \E r \in find_outfit_path_in(extOrder2, name) :
            /\ resolved2' = [name |-> name, result |-> r]
            /\ UNCHANGED <<catalog, extOrder, extOrder2, resolved, extracted,
                           files, lastWriter, req>>

NextRuns == ResolveRun1 \/ ResolveRun2

SpecRuns == InitRuns /\ [][NextRuns]_vars

----------------------------------------------------------------------------
(* The extractor as a pure function of the response: SpecExtract *)

InitExtract ==
    /\ catalog = {}
    /\ extOrder \in ExtOrders
    /\ extOrder2 = extOrder
    /\ resolved = NoCall
    /\ resolved2 = NoCall
    /\ extracted = NoExtraction
    /\ HandlerAtRest

Extract ==
    /\ extracted = NoExtraction
    /\ \E response \in Responses(PayloadBytes, MaxCands, MaxParts) :
        /\ extracted' = [response |-> response,
                         result |-> ExtractImage(response),
                         outcome |-> AfterCall(Return(response))]
        /\ UNCHANGED <<catalog, extOrder, extOrder2, resolved, resolved2,
                       files, lastWriter, req>>

NextExtract == Extract

SpecExtract == InitExtract /\ [][NextExtract]_vars

----------------------------------------------------------------------------
(* Properties *)

\* no catalog entry equals the identifier, equals it plus an extension, or starts
\* with it
NoMatch(name) == \A p \in catalog : ~StartsWith(p, name)

\* C1: a request without a photo gets 400; with a photo and no outfit identifier in
\* any of the three places it gets 400 "Missing 'outfit' parameter."; with a photo
\* and an identifier matching no catalog file and no prefix it gets 404 "Outfit not
\* found: <identifier>"; none of the three calls the upstream model.
C1_ValidationAndNotFound ==
    LET q == req[1]
    IN  q.pc = "done" =>
          /\ ~q.has_photo => (q.resp[1].status = 400 /\ q.sent = None)
          /\ (q.has_photo /\ ~Truthy(q.outfit_name)) =>
                (q.resp[1] = MissingOutfit /\ q.sent = None)
          /\ (q.has_photo /\ Truthy(q.outfit_name) /\ NoMatch(q.outfit_name[1])) =>
                /\ q.resp[1] = Response(404, NotFoundMessage(q.outfit_name[1]), <<>>)
                /\ q.sent = None

\* C2: if the catalog holds <identifier><ext> for an allowed extension, the resolver
\* returns a catalog file for that identifier (that file, or the identifier's own
\* exact match); if no catalog entry equals the identifier, equals it plus an allowed
\* extension or starts with it, the resolver fails with NotFound naming the identifier.
C2_FindsFileOrNotFound ==
    resolved # NoCall =>
        LET name == resolved.name
            res == resolved.result
        IN  /\ (\E e \in ALLOWED_EXTS : (name \o e) \in catalog) =>
                  /\ res.ok
                  /\ res.path \in catalog
                  /\ (res.path = name \/ \E e \in ALLOWED_EXTS : res.path = name \o e)
            /\ NoMatch(name) =>
                  (~res.ok /\ res.error = NotFoundMessage(name))

\* the catalog files that match the identifier exactly (with an allowed extension)
\* or as identifier plus an allowed extension
DirectMatches(name) ==
    {p \in catalog :
        \/ p = name /\ allowed_file(p)
        \/ \E e \in ALLOWED_EXTS : p = name \o e}

DataOf(part) == part.inline_data[1].data[1]

\* the non-empty inline payloads of one candidate, in part order
CandidatePayloads(cand) ==
    IF cand.content = None \/ cand.content[1].parts = None THEN <<>>
    ELSE LET withData == SelectSeq(cand.content[1].parts[1], HasData)
         IN  [i \in DOMAIN withData |-> DataOf(withData[i])]

RECURSIVE PayloadsOf(_)
PayloadsOf(cands) ==
    IF cands = <<>> THEN <<>>
    ELSE CandidatePayloads(Head(cands)) \o PayloadsOf(Tail(cands))

\* the non-empty inline payloads of a response, in candidate order then part order
ResponsePayloads(response) ==
    IF response = None \/ response[1].candidates = None THEN <<>>
    ELSE PayloadsOf(response[1].candidates[1])

\* C4: the extractor returns the first non-empty inline payload in candidate order,
\* then part order: candidates without one are skipped and the next is tried.
C4_FirstPayloadReturned ==
    (extracted # NoExtraction /\ ResponsePayloads(extracted.response) # <<>>) =>
        extracted.result =
            [kind |-> "image", data |-> ResponsePayloads(extracted.response)[1]]

\* C5: every response without a non-empty inline payload makes run_gemini_tryon fail
\* with the no-image error that carries the model identifier, and with no other error.
C5_NoPayloadIsNoImage ==
    (extracted # NoExtraction /\ ResponsePayloads(extracted.response) = <<>>) =>
        /\ extracted.outcome =
              [kind |-> "raise", type |-> "RuntimeError", msg |-> NoImageMessage]
        /\ Contains(extracted.outcome.msg, GEMINI_MODEL)

\* C6: the request sent upstream is one content with exactly three parts: the
\* instruction text, then the photo this request uploaded, then the resolved garment;
\* the styling text only extends the text part.
C6_RequestPartOrder ==
    LET q == req[1]
    IN  q.sent # None =>
          LET contents == q.sent[1]
          IN  /\ Len(contents) = 1
              /\ Len(contents[1].parts) = 3
              /\ DOMAIN contents[1].parts[1] = {"text"}
              /\ Head(contents[1].parts[1].text) = BASE_PROMPT
              /\ contents[1].parts[1].text = PromptText(q.prompt)
              /\ contents[1].parts[2] = InlinePart(PngOf(Whole(q.photo)))
              /\ q.outfit_path \in catalog
              /\ contents[1].parts[3] = InlinePart(GarmentPng(q.outfit_path))

\* C6 witness: a request with styling text has called upstream
C6_Witness ==
    /\ req[1].sent # None
    /\ req[1].prompt = "casual"
    /\ req[1].pc = "out_open"

AllDone == \A r \in Requests : req[r].pc = "done"

\* the bytes request r writes to the file p
WrittenTo(r, p) == IF p = OUT_PATH THEN req[r].image_bytes ELSE req[r].photo

\* the requests that wrote the file p
WritersOf(p) ==
    {r \in Requests :
        IF p = OUT_PATH THEN req[r].image_bytes # "" ELSE req[r].user_path = p}

C8_ErrorTextReported ==
    LET q == req[1]
    IN  (q.pc = "done" /\ q.exc # None) =>
          /\ q.resp[1].status = 500
          /\ q.resp[1].error =
                <<"Try-on error: ">> \o
                    (IF q.exc[1].type = "ClientError" /\ IsQuotaText(q.exc[1].msg)
                     THEN QUOTA_MESSAGE ELSE q.exc[1].msg)
          /\ q.exc[1].type = "RuntimeError" => Contains(q.resp[1].error, GEMINI_MODEL)

\* step 2 of find_outfit_path decided the call: no exact match, some extension exists
DecidedByExtension(order, name) ==
    /\ ~(name \in catalog /\ allowed_file(name))
    /\ ExistingExtPositions(order, name) # {}

\* C9: two runs of the program on the same catalog resolve the same identifier in
\* step 2 to the same file.
C9_SameFileInEveryRun ==
    (/\ resolved # NoCall
     /\ resolved2 # NoCall
     /\ resolved.name = resolved2.name
     /\ DecidedByExtension(extOrder, resolved.name)) =>
        resolved.result = resolved2.result

\* C10: a sequential request that succeeds leaves its own image in the result file
\* and returns it; one that ends otherwise leaves the result file as it was; one
\* that ends in 400 also leaves the upload files as they were.
C10_ResultFileFrame ==
    LET q == req[1]
    IN  q.pc = "done" =>
          /\ q.resp[1].status = 200 =>
                /\ files[OUT_PATH] = Whole(q.image_bytes)
                /\ q.resp[1].data = Whole(q.image_bytes)
                /\ q.image_bytes \in ImageSources
          /\ q.resp[1].status # 200 => files[OUT_PATH] = q.before[OUT_PATH]
          /\ q.resp[1].status = 400 => files = q.before

\* C10 witness: after an earlier success, a request called upstream, failed, and the
\* earlier result is still in the file
C10_Witness ==
    /\ req[1].pc = "done"
    /\ req[1].resp[1].status = 500
    /\ req[1].sent # None
    /\ req[1].before[OUT_PATH] = Whole("img1")
    /\ files[OUT_PATH] = Whole("img1")

====
